---- MODULE Spec2Model ----
(***************************************************************************)
(* Model of the AudioEngine of locus-control (services/AudioEngine,        *)
(* src/unnamed/part_011 lines 449-823) and of the host audio graph its     *)
(* handlers drive.                                                         *)
(*                                                                         *)
(* Numbers are fixed point.  Volumes and the crossfader are in thousandths *)
(* (0.8 is 800, -1 is -1000); a gain target is the product of a volume and *)
(* a crossfade compensation and is in millionths (0.4 is 400000, the       *)
(* 0.001 floor of updateMix is 1000).  A monitor-gate target is 0 or 1.    *)
(*                                                                         *)
(* Every MediaStream handed to addSource is a fresh one (AudioProvider     *)
(* acquires one per call), so a stream, and the node set addSource builds  *)
(* for it, are named by the number of the call.                            *)
(***************************************************************************)
EXTENDS Integers, Sequences, FiniteSets, TLC

VARIABLES sources, crossfader, nodes, stopped, pending, nextStream, ctxState,
          masterVolume, monitorBus, fx, fxState, visualData, service

vars == <<sources, crossfader, nodes, stopped, pending, nextStream, ctxState,
          masterVolume, monitorBus, fx, fxState, visualData, service>>

\* ---------------------------------------------------------------- bounds
MaxAdds == 2

Slots == {1, 2}
Types == {"screen", "mic"}
Groups == {"A", "B", "C"}
Buses == {"busA", "busB", "masterBus"}
None == "undefined"

VolInputs == {1}
CrossfaderInputs == {-1500, 0, 500}

\* ------------------------------------------------------- program constants
Scale == 1000
InitialVolume == 800
MaxVolume == 2000
GainFloor == 1000

Min(a, b) == IF a < b THEN a ELSE b
Max(a, b) == IF a > b THEN a ELSE b

\* ------------------------------------------------------------ host graph
\* The outgoing edges of one channel's nodes, as the host keeps them.
NewNodes ==
  [srcToGain |-> FALSE, gainToProbe |-> FALSE, gainToMon |-> FALSE,
   monToBus |-> FALSE, gainTo |-> {}]

\* gainNode.connect(bus)
Connect(n, bus) == [n EXCEPT !.gainTo = @ \cup {bus}]

\* gainNode.disconnect(): every outgoing edge of the gain node goes
DisconnectAll(n) ==
  [n EXCEPT !.gainTo = {}, !.gainToProbe = FALSE, !.gainToMon = FALSE]

\* gainNode.disconnect(bus) throws when there is no such edge
DisconnectThrows(n, bus) == bus \notin n.gainTo

Disconnect(n, bus) == [n EXCEPT !.gainTo = @ \ {bus}]

\* ------------------------------------------------------------- updateMix
anySolo(srcs) == \E i \in DOMAIN srcs : srcs[i].solo

TargetBus(s) ==
  IF s.crossfadeGroup = "A" THEN "busA"
  ELSE IF s.crossfadeGroup = "B" THEN "busB"
  ELSE "masterBus"

\* CrossfadeGain with the two signs of the crossfader exchanged
CrossfadeGainSwapped(s, cf) ==
  IF s.crossfadeGroup = "A" THEN (IF cf < 0 THEN Scale + cf ELSE Scale)
  ELSE IF s.crossfadeGroup = "B" THEN (IF cf > 0 THEN Scale - cf ELSE Scale)
  ELSE Scale

\* crossfadeGain, in thousandths
CrossfadeGain(s, cf) ==
  IF s.crossfadeGroup = "A" THEN (IF cf > 0 THEN Scale - cf ELSE Scale)
  ELSE IF s.crossfadeGroup = "B" THEN (IF cf < 0 THEN Scale + cf ELSE Scale)
  ELSE Scale

\* The code multiplies doubles.  Of all volumes and compensations in whole
\* thousandths the double product lies on the other side of 0.001 than the
\* real product for these two only: 0.005 * (1 - 0.8) and 0.01 * (1 - 0.9)
\* (and the same with 1 + -0.8 and 1 + -0.9) are 0.0009999999999999998.
RoundedUnder == {<<5, 200>>, <<10, 100>>}

\* targetGain *= crossfadeGain, in millionths; a product the doubles leave
\* under the real one is counted as the millionth below
Times(gain, compensation) ==
  IF <<gain, compensation>> \in RoundedUnder
  THEN gain * compensation - 1
  ELSE gain * compensation

\* TargetGain with mute applied only to channels that are not soloed
TargetGainSoloOverMute(s, solo, cf) ==
  LET g0 == s.volume
      g1 == IF s.muted /\ ~s.solo THEN 0 ELSE g0
      g2 == IF solo /\ ~s.solo THEN 0 ELSE g1
  IN  Times(g2, CrossfadeGain(s, cf))

\* targetGain after the compensation, in millionths
TargetGain(s, solo, cf) ==
  LET g0 == s.volume
      g1 == IF s.muted THEN 0 ELSE g0
      g2 == IF solo /\ ~s.solo THEN 0 ELSE g1
  IN  Times(g2, CrossfadeGain(s, cf))

\* the value handed to gain.setTargetAtTime
RampTarget(g) == IF g < GainFloor THEN 0 ELSE g

\* MixCalls without the disconnect of the old edge
MixCallsNoDisconnect(s) ==
  IF s.connectedBus # TargetBus(s)
  THEN << [op |-> "connect", bus |-> TargetBus(s)] >>
  ELSE << >>

\* the graph calls updateMix issues on the gain node of s, in order
MixCalls(s) ==
  IF s.connectedBus # TargetBus(s)
  THEN << (IF s.connectedBus # None
           THEN [op |-> "disconnect", bus |-> s.connectedBus]
           ELSE [op |-> "disconnectAll", bus |-> None]),
          [op |-> "connect", bus |-> TargetBus(s)] >>
  ELSE << >>

\* one call of updateMix applied by the host; a disconnect(bus) that throws
\* is caught and replaced by disconnect()
ApplyCall(n, c) ==
  IF c.op = "connect" THEN Connect(n, c.bus)
  ELSE IF c.op = "disconnectAll" THEN DisconnectAll(n)
  ELSE IF DisconnectThrows(n, c.bus) THEN DisconnectAll(n)
  ELSE Disconnect(n, c.bus)

RECURSIVE ApplyCalls(_, _)
ApplyCalls(n, cs) ==
  IF cs = << >> THEN n ELSE ApplyCalls(ApplyCall(n, Head(cs)), Tail(cs))

\* MixSource without the assignment to _connectedBus
MixSourceNoRecord(s, solo, cf) ==
  [s EXCEPT !.gain = RampTarget(TargetGain(s, solo, cf)),
            !.monitorGate = IF s.monitoring THEN 1 ELSE 0]

\* the body of the forEach for one channel: its record afterwards
MixSource(s, solo, cf) ==
  [s EXCEPT !.connectedBus = TargetBus(s),
            !.gain = RampTarget(TargetGain(s, solo, cf)),
            !.monitorGate = IF s.monitoring THEN 1 ELSE 0]

\* An engine state e is [sources, crossfader, nodes, stopped].
updateMix(e) ==
  LET solo == anySolo(e.sources)
      live == {e.sources[i].stream : i \in DOMAIN e.sources}
      slotOf(k) == CHOOSE i \in DOMAIN e.sources : e.sources[i].stream = k
  IN  [e EXCEPT
        !.sources = [i \in DOMAIN e.sources |->
                       MixSource(e.sources[i], solo, e.crossfader)],
        !.nodes = [k \in DOMAIN e.nodes |->
                     IF k \in live
                     THEN ApplyCalls(e.nodes[k], MixCalls(e.sources[slotOf(k)]))
                     ELSE e.nodes[k]]]

\* ---------------------------------------------------------- removeSource
\* Teardown without the stop of the stream's tracks
TeardownNoStop(e, id) ==
  LET s == e.sources[id]
      n == e.nodes[s.stream]
      threw == s.connectedBus # None /\ DisconnectThrows(n, s.connectedBus)
      n1 == IF s.connectedBus # None
            THEN Disconnect(n, s.connectedBus) ELSE DisconnectAll(n)
      n2 == [n1 EXCEPT !.srcToGain = FALSE, !.monToBus = FALSE]
  IN  [e EXCEPT
        !.nodes = IF threw THEN @ ELSE [@ EXCEPT ![s.stream] = n2],
        !.sources = [i \in DOMAIN e.sources \ {id} |-> e.sources[i]]]

\* the body of removeSource for a registered id: the try block, whose first
\* throwing call skips the calls after it, then the delete
Teardown(e, id) ==
  LET s == e.sources[id]
      n == e.nodes[s.stream]
      threw == s.connectedBus # None /\ DisconnectThrows(n, s.connectedBus)
      n1 == IF s.connectedBus # None
            THEN Disconnect(n, s.connectedBus) ELSE DisconnectAll(n)
      n2 == [n1 EXCEPT !.srcToGain = FALSE, !.monToBus = FALSE]
  IN  [e EXCEPT
        !.nodes = IF threw THEN @ ELSE [@ EXCEPT ![s.stream] = n2],
        !.stopped = IF threw THEN @ ELSE @ \cup {s.stream},
        !.sources = [i \in DOMAIN e.sources \ {id} |-> e.sources[i]]]

\* removeSource taking id for a position in the registry when no channel
\* has that id
removeSourceByPosition(e, id) ==
  IF id \in DOMAIN e.sources THEN Teardown(e, id)
  ELSE IF DOMAIN e.sources = {} THEN e
  ELSE Teardown(e, CHOOSE i \in DOMAIN e.sources :
                     \A j \in DOMAIN e.sources : i <= j)

removeSource(e, id) ==
  IF id \notin DOMAIN e.sources THEN e ELSE Teardown(e, id)

\* ------------------------------------------------------------- addSource
\* NewSource with the monitor gate open for every kind
NewSourceMonitorOpen(slotId, stream, type) ==
  [id |-> slotId, stream |-> stream,
   volume |-> InitialVolume, muted |-> FALSE, solo |-> FALSE,
   monitoring |-> TRUE, crossfadeGroup |-> "C",
   connectedBus |-> None,
   gain |-> InitialVolume * Scale,
   monitorGate |-> 1]

\* label, type, active and the node handles of the record are left out: no
\* handler of the engine reads them; stream names the channel's node set
NewSource(slotId, stream, type) ==
  [id |-> slotId, stream |-> stream,
   volume |-> InitialVolume, muted |-> FALSE, solo |-> FALSE,
   monitoring |-> (type = "screen"), crossfadeGroup |-> "C",
   connectedBus |-> None,
   gain |-> InitialVolume * Scale,
   monitorGate |-> IF type = "screen" THEN 1 ELSE 0]

WiredNodes ==
  [NewNodes EXCEPT !.srcToGain = TRUE, !.gainToProbe = TRUE,
                   !.gainToMon = TRUE, !.monToBus = TRUE]

\* addSource without the teardown of the slot's occupant
addSourceNoTeardown(e, slotId, stream, type) ==
  LET e2 == [e EXCEPT
               !.nodes = [k \in DOMAIN e.nodes \cup {stream} |->
                            IF k = stream THEN WiredNodes ELSE e.nodes[k]],
               !.sources = [i \in DOMAIN e.sources \cup {slotId} |->
                              IF i = slotId
                              THEN NewSource(slotId, stream, type)
                              ELSE e.sources[i]]]
  IN  updateMix(e2)

\* addSource leaving an occupied slot to its occupant
addSourceFirstWins(e, slotId, stream, type) ==
  IF slotId \in DOMAIN e.sources THEN e
  ELSE updateMix(
         [e EXCEPT
            !.nodes = [k \in DOMAIN e.nodes \cup {stream} |->
                         IF k = stream THEN WiredNodes ELSE e.nodes[k]],
            !.sources = [i \in DOMAIN e.sources \cup {slotId} |->
                           IF i = slotId
                           THEN NewSource(slotId, stream, type)
                           ELSE e.sources[i]]])

\* addSource after the await of resume()
addSource(e, slotId, stream, type) ==
  LET e1 == IF slotId \in DOMAIN e.sources THEN removeSource(e, slotId) ELSE e
      e2 == [e1 EXCEPT
               !.nodes = [k \in DOMAIN e1.nodes \cup {stream} |->
                            IF k = stream THEN WiredNodes ELSE e1.nodes[k]],
               !.sources = [i \in DOMAIN e1.sources \cup {slotId} |->
                              IF i = slotId
                              THEN NewSource(slotId, stream, type)
                              ELSE e1.sources[i]]]
  IN  updateMix(e2)

\* --------------------------------------------------------------- setters
Clamp(lo, hi, val) == Min(hi, Max(lo, val))

setSourceVolume(e, id, val) ==
  IF id \notin DOMAIN e.sources THEN e
  ELSE updateMix([e EXCEPT !.sources[id].volume = Clamp(0, MaxVolume, val)])

setMute(e, id, muted) ==
  IF id \notin DOMAIN e.sources THEN e
  ELSE updateMix([e EXCEPT !.sources[id].muted = muted])

setSolo(e, id, solo) ==
  IF id \notin DOMAIN e.sources THEN e
  ELSE updateMix([e EXCEPT !.sources[id].solo = solo])

setMonitoring(e, id, monitoring) ==
  IF id \notin DOMAIN e.sources THEN e
  ELSE updateMix([e EXCEPT !.sources[id].monitoring = monitoring])

setCrossfade(e, id, group) ==
  IF id \notin DOMAIN e.sources THEN e
  ELSE updateMix([e EXCEPT !.sources[id].crossfadeGroup = group])

\* setCrossfader moving the crossfader half way to the value
setCrossfaderHalfWay(e, val) ==
  updateMix([e EXCEPT !.crossfader = (@ + Max(-Scale, Min(Scale, val))) \div 2])

setCrossfader(e, val) ==
  updateMix([e EXCEPT !.crossfader = Max(-Scale, Min(Scale, val))])

\* ------------------------------------------------------- insertion order
\* The registry is a Map: forEach visits the channels in the order of their
\* sources.set.  addSource deletes the slot's entry before it sets it, the
\* continuations run in the order of the calls, and a stream is named by
\* the number of its call: the order is that of the stream numbers.
RECURSIVE InOrder(_, _)
InOrder(srcs, ids) ==
  IF ids = {} THEN << >>
  ELSE LET first == CHOOSE i \in ids :
                      \A j \in ids : srcs[i].stream <= srcs[j].stream
       IN  << first >> \o InOrder(srcs, ids \ {first})

InsertionOrder(srcs) == InOrder(srcs, DOMAIN srcs)

\* --------------------------------------------------------------- destroy
RECURSIVE removeEach(_, _)
removeEach(e, ids) ==
  IF ids = << >> THEN e
  ELSE removeEach(removeSource(e, Head(ids)), Tail(ids))

\* destroy removing the first channel of the registry only
destroyFirstOnly(e) ==
  LET order == InsertionOrder(e.sources)
  IN  IF order = << >> THEN e ELSE removeSource(e, Head(order))

\* destroy: removeSource for every channel of the registry
destroy(e) == removeEach(e, InsertionOrder(e.sources))

\* ------------------------------------------- handlers on a rejecting host
\* The host may reject a call on the graph.  rejected is the set of streams
\* on whose gain node the host rejects connect during one handler; a
\* handler's outcome is the engine state it leaves and whether it threw.
Outcome(e, threw) == [state |-> e, threw |-> threw]

\* MixStep with the rejected connect caught like the disconnect before it
MixStepSwallowing(e, id, solo, rejected) ==
  LET s == e.sources[id]
      n == e.nodes[s.stream]
      calls == MixCalls(s)
  IN  IF calls # << >> /\ s.stream \in rejected
      THEN Outcome([e EXCEPT !.nodes[s.stream] = ApplyCall(n, Head(calls))],
                   FALSE)
      ELSE Outcome([e EXCEPT
                      !.sources[id] = MixSource(s, solo, e.crossfader),
                      !.nodes[s.stream] = ApplyCalls(n, calls)], FALSE)

\* the body of updateMix's forEach for channel id: when the connect of line
\* 734 is rejected the old edge is already gone and lines 735-745 are not
\* reached
MixStep(e, id, solo, rejected) ==
  LET s == e.sources[id]
      n == e.nodes[s.stream]
      calls == MixCalls(s)
  IN  IF calls # << >> /\ s.stream \in rejected
      THEN Outcome([e EXCEPT !.nodes[s.stream] = ApplyCall(n, Head(calls))],
                   TRUE)
      ELSE Outcome([e EXCEPT
                      !.sources[id] = MixSource(s, solo, e.crossfader),
                      !.nodes[s.stream] = ApplyCalls(n, calls)], FALSE)

\* the forEach over the channels still to visit: an exception ends it
RECURSIVE MixFrom(_, _, _, _)
MixFrom(e, ids, solo, rejected) ==
  IF ids = << >> THEN Outcome(e, FALSE)
  ELSE LET r == MixStep(e, Head(ids), solo, rejected)
       IN  IF r.threw THEN r
           ELSE MixFrom(r.state, Tail(ids), solo, rejected)

updateMixHost(e, rejected) ==
  MixFrom(e, InsertionOrder(e.sources), anySolo(e.sources), rejected)

setMuteHost(e, id, muted, rejected) ==
  IF id \notin DOMAIN e.sources THEN Outcome(e, FALSE)
  ELSE updateMixHost([e EXCEPT !.sources[id].muted = muted], rejected)

setCrossfadeHost(e, id, group, rejected) ==
  IF id \notin DOMAIN e.sources THEN Outcome(e, FALSE)
  ELSE updateMixHost([e EXCEPT !.sources[id].crossfadeGroup = group],
                     rejected)

\* addSource after the await; opens is whether createMediaStreamSource
\* accepts the stream (it throws for a stream without an audio track)
addSourceHost(e, slotId, stream, type, opens, rejected) ==
  LET e1 == IF slotId \in DOMAIN e.sources THEN removeSource(e, slotId) ELSE e
      e2 == [e1 EXCEPT
               !.nodes = [k \in DOMAIN e1.nodes \cup {stream} |->
                            IF k = stream THEN WiredNodes ELSE e1.nodes[k]],
               !.sources = [i \in DOMAIN e1.sources \cup {slotId} |->
                              IF i = slotId
                              THEN NewSource(slotId, stream, type)
                              ELSE e1.sources[i]]]
  IN  IF ~opens THEN Outcome(e1, TRUE) ELSE updateMixHost(e2, rejected)

\* --------------------------------------------------------------- effects
\* Effect parameters are in thousandths: 20 Hz is 20000, 0.95 is 950, a
\* distortion amount of 20 is 20000.
FilterFreqMin == 20000
FilterFreqMax == 20000000
FilterResMax == 20000
DelayTimeMax == 4000
DelayFeedbackMax == 950
DelayWetMax == 1000
CurveSamples == 256

FilterTypes == {"lowpass", "highpass", "allpass"}
FxParams == {"filterType", "filterFreq", "filterRes", "distortionAmount",
             "delayTime", "delayFeedback", "delayWet"}

\* The values the controls hand to updateFx for one parameter.
FxInputs(param) ==
  CASE param = "filterType" -> FilterTypes
    [] param = "filterFreq" -> {5000, 30000000}
    [] param = "filterRes" -> {-1000, 25000}
    [] param = "distortionAmount" -> {0, 20000, 80000}
    [] param = "delayTime" -> {-100, 5000}
    [] param = "delayFeedback" -> {-100, 990}
    [] param = "delayWet" -> {-100, 1500}
MasterInputs == {-500, 2500}

\* The Partial<FxState> objects the controls hand to the provider: those
\* that name up to MaxParams parameters, and two whole scenes.
MaxParams == 2

\* a partial state with parameter param added
With(params, param, value) ==
  [q \in DOMAIN params \cup {param} |->
     IF q = param THEN value ELSE params[q]]

\* the partial states that name exactly the parameters of the set names
RECURSIVE Partials(_)
Partials(names) ==
  IF names = {} THEN {[q \in {} |-> 0]}
  ELSE LET param == CHOOSE q \in names : TRUE
       IN  {With(params, param, value) :
              params \in Partials(names \ {param}),
              value \in FxInputs(param)}

Scenes ==
  {[filterType |-> "highpass", filterFreq |-> 30000000, filterRes |-> 25000,
    distortionAmount |-> 80000, delayTime |-> 5000, delayFeedback |-> 990,
    delayWet |-> 1500],
   [filterType |-> "lowpass", filterFreq |-> 5000, filterRes |-> -1000,
    distortionAmount |-> 0, delayTime |-> -100, delayFeedback |-> -100,
    delayWet |-> -100]}

FxUpdates ==
  UNION {Partials(names) :
           names \in {n \in SUBSET FxParams :
                        Cardinality(n) \in 1..MaxParams}}
    \cup Scenes

\* { ...prev, ...params }
Merged(prev, params) ==
  [q \in DOMAIN prev |-> IF q \in DOMAIN params THEN params[q] ELSE prev[q]]

\* A curve is named by what it is computed from: its length and the k of
\* its samples ((3 + k) * x * 20 * deg) / (PI + k * |x|).  NoCurve stands
\* for the null curve of a bypassed distortion stage.
NoCurve == [length |-> 0, k |-> 0]

makeDistortionCurve(amount) ==
  [length |-> CurveSamples, k |-> Max(0, amount)]

\* updateFx: f is the effect chain as the host holds it (the targets of
\* its parameters and the curve of the distortion stage)
updateFx(f, state) ==
  [type |-> state.filterType,
   frequency |-> Min(FilterFreqMax, Max(FilterFreqMin, state.filterFreq)),
   Q |-> Min(FilterResMax, Max(0, state.filterRes)),
   delayTime |-> Min(DelayTimeMax, Max(0, state.delayTime)),
   feedback |-> Min(DelayFeedbackMax, Max(0, state.delayFeedback)),
   wet |-> Min(DelayWetMax, Max(0, state.delayWet)),
   curve |-> IF state.distortionAmount > 0
             THEN (IF f.curve = NoCurve \/ f.curve.length = 2
                   THEN makeDistortionCurve(state.distortionAmount)
                   ELSE f.curve)
             ELSE NoCurve]

\* setMasterVolume: the value stored and scheduled on the master bus
setMasterVolume(val) == Max(0, Min(MaxVolume, val))

\* setMonitorEnabled: the target scheduled on the monitor bus, 1 or 0
setMonitorEnabled(enabled) == IF enabled THEN 1 ELSE 0

\* The effect chain after the constructor: what it sets, and the defaults
\* of the host for what it leaves alone (Q 1, delayTime 0, gain 1, no curve).
InitialFx ==
  [type |-> "lowpass", frequency |-> 20000000, Q |-> 1000, delayTime |-> 0,
   feedback |-> 1000, wet |-> 0, curve |-> NoCurve]

\* The FxState the provider starts with.
InitialFxState ==
  [filterType |-> "allpass", filterFreq |-> 20000000, filterRes |-> 0,
   distortionAmount |-> 0, delayTime |-> 300, delayFeedback |-> 0,
   delayWet |-> 0]

\* --------------------------------------------------------------- metrics
\* Sizes of the arrays processMetrics works on, and of what the analysers
\* write into them: an analyser writes as many entries as it has bins (or
\* samples) and leaves the rest of a longer array as it was.
RawLen == 1024
MasterBins == 512
GroupBins == 128
RmsLen == 256
ChannelSamples == 128
ByteMax == 255
ByteMid == 128

\* getByte...Data(array): the array afterwards, data being what the
\* analyser has to deliver
Fill(array, data) ==
  IF Len(data) >= Len(array) THEN SubSeq(data, 1, Len(array))
  ELSE data \o SubSeq(array, Len(data) + 1, Len(array))

\* an array of len entries v
Flat(len, v) == [i \in 1..len |-> v]

\* Math.floor(len * 0.06) and Math.floor(len * 0.35), exact for the lengths
\* used here (below 180 and at 1024 the floating point product has the same
\* floor as the exact one)
bBins(len) == (6 * len) \div 100
mBins(len) == (35 * len) \div 100

\* the indexes i a loop "for (i = from; i < to; i++)" reads
Indexes(from, to) == from..(to - 1)

\* BandBounds with the high loop starting where the mid loop starts
BandBoundsHighFromMid(len) ==
  LET b == bBins(len)
      m == mBins(len)
  IN  [bass |-> [from |-> 0, to |-> b],
       mid |-> [from |-> b, to |-> b + m],
       high |-> [from |-> b, to |-> len]]

\* the bounds of the three loops of the band split
BandBounds(len) ==
  LET b == bBins(len)
      m == mBins(len)
  IN  [bass |-> [from |-> 0, to |-> b],
       mid |-> [from |-> b, to |-> b + m],
       high |-> [from |-> b + m, to |-> len]]

\* the sum of data[i] over the indexes from..to-1 (data[i] of the code is
\* entry i + 1 of the sequence)
RECURSIVE SumBins(_, _, _)
SumBins(data, from, to) ==
  IF to <= from THEN 0
  ELSE IF to = from + 1 THEN data[from + 1]
  ELSE LET half == (from + to) \div 2
       IN  SumBins(data, from, half) + SumBins(data, half, to)

\* A band energy is the exact fraction num / den.
Ratio(n, d) == [num |-> n, den |-> d]
Zero == Ratio(0, 1)

\* the sums and divisions of the band split, shared by its two copies
SplitBands(data) ==
  LET at == BandBounds(Len(data))
      sum(r) == SumBins(data, r.from, r.to)
      bins(r) == Max(1, r.to - r.from)
  IN  [bass |-> Ratio(sum(at.bass), bins(at.bass) * ByteMax),
       mid |-> Ratio(sum(at.mid), bins(at.mid) * ByteMax),
       high |-> Ratio(sum(at.high), bins(at.high) * ByteMax)]

\* the band split of processMetrics on the master spectrum
MasterBands(data) == SplitBands(data)

updateBandEnergy(data) ==
  IF Len(data) = 0 THEN [bass |-> Zero, mid |-> Zero, high |-> Zero]
  ELSE SplitBands(data)

\* hue is counted in units of 1/HueScale degree, which makes 0.15 and
\* 2.5 * bass whole numbers for every bass the master split can give
HueScale == 20 * Max(1, bBins(RawLen)) * ByteMax

\* The hue is a double and the sums are sums of doubles, so the hue the
\* model counts stands for the doubles within rounding of it (after 2399
\* silent ticks from 0 the code holds 359.8499999999911 for 359.85).  This
\* shows where the counted sum is exactly 360: a double sum under 360 is
\* left as it is (359.9999999999911), one that reaches 360 wraps to 0.
\* Under360 stands for the doubles just under 360, and under says which of
\* the two the rounding of a tick gives.
Under360 == 360 * HueScale

\* hueAfter without the modulo
hueAfterNoWrap(hue, bass, under) ==
  hue + (15 * HueScale) \div 100
      + (25 * bass.num * (HueScale \div bass.den)) \div 10

\* (hue + 0.15 + bass * 2.5) % 360
hueAfter(hue, bass, under) ==
  LET sum == hue + (15 * HueScale) \div 100
                 + (25 * bass.num * (HueScale \div bass.den)) \div 10
  IN  IF sum = 360 * HueScale /\ under THEN Under360
      ELSE sum % (360 * HueScale)

\* ---- peak levels
\* A peak level p stands for sqrt(p.t * 25 / 2^22) * 0.9^p.k: t is the sum
\* of the squares (sample - 128)^2 the level was measured from and k the
\* number of times it has decayed since.  Levels are compared through their
\* squares, t * 0.81^k, with whole numbers.
Peak(t, k) == [t |-> t, k |-> k]

RECURSIVE Pow(_, _)
Pow(b, n) == IF n = 0 THEN 1 ELSE b * Pow(b, n - 1)

RECURSIVE GCD(_, _)
GCD(a, b) == IF b = 0 THEN a ELSE GCD(b, a % b)

\* p >= q as levels
PeakGeq(p, q) ==
  IF q.t = 0 THEN TRUE
  ELSE IF p.t = 0 THEN FALSE
  ELSE LET g == GCD(p.t, q.t)
           d == Min(p.k, q.k)
       IN  (p.t \div g) * Pow(81, p.k - d) * Pow(100, q.k - d)
             >= (q.t \div g) * Pow(81, q.k - d) * Pow(100, p.k - d)

\* _rmsBuffer after getByteTimeDomainData: the entries past the analyser's
\* samples are never written and hold the 0 the array was created with
RmsBuffer(samples) == Fill(Flat(RmsLen, 0), samples)

RECURSIVE SumSquares(_, _, _)
SumSquares(buf, from, to) ==
  IF to <= from THEN 0
  ELSE IF to = from + 1
       THEN (buf[from + 1] - ByteMid) * (buf[from + 1] - ByteMid)
  ELSE LET half == (from + to) \div 2
       IN  SumSquares(buf, from, half) + SumSquares(buf, half, to)

\* the peak of line 813, sqrt(acc * RMS_WEIGHT) * 5 with acc the sum of
\* ((buf[i] - 128) / 128)^2 over the 256 entries of the buffer
RawPeak(buf) == Peak(SumSquares(buf, 0, RmsLen), 0)

\* peakLevels[id] || 0
PeakOf(levels, id) == IF id \in DOMAIN levels THEN levels[id] ELSE Peak(0, 0)

\* Math.max(peak, prev * 0.90)
PeakHold(raw, prev) ==
  LET held == Peak(prev.t, prev.k + 1)
  IN  IF PeakGeq(raw, held) THEN raw ELSE held

InitialVisualData ==
  [bass |-> Zero, mid |-> Zero, high |-> Zero, hue |-> 0,
   raw |-> Flat(RawLen, 0), peakLevels |-> << >>,
   groupA |-> [bass |-> Zero, mid |-> Zero, high |-> Zero],
   groupB |-> [bass |-> Zero, mid |-> Zero, high |-> Zero]]

\* What the host delivers on one tick: the master spectrum, the spectra of
\* bus A and bus B, and the samples of every channel's analyser.
TickInput(master, a, b, wave) ==
  [master |-> master, a |-> a, b |-> b, wave |-> wave]

\* processMetrics: the telemetry afterwards
processMetrics(vd, srcs, ctx, in, under) ==
  IF ctx # "running" THEN vd
  ELSE LET raw1 == Fill(vd.raw, in.master)
           bands == MasterBands(raw1)
       IN  [bass |-> bands.bass, mid |-> bands.mid, high |-> bands.high,
            hue |-> hueAfter(vd.hue, bands.bass, under),
            raw |-> raw1,
            peakLevels |->
              [id \in DOMAIN vd.peakLevels \cup DOMAIN srcs |->
                 IF id \in DOMAIN srcs
                 THEN PeakHold(RawPeak(RmsBuffer(in.wave[id])),
                               PeakOf(vd.peakLevels, id))
                 ELSE vd.peakLevels[id]],
            groupA |-> updateBandEnergy(in.a),
            groupB |-> updateBandEnergy(in.b)]

\* ------------------------------------------------------ WebSocketService
\* (src/unnamed/part_011 lines 22-267.)  A service state w holds the fields
\* of this.state that the connection logic reads; the reconnect timers set
\* so far (timers, TRUE while pending) and the one this.reconnectTimer
\* refers to (0 for null); the heartbeat intervals started so far (beats,
\* TRUE while running) and the one this.heartbeatTimer refers to; the
\* WebSocket objects created so far (socks) and which of them this.ws
\* refers to (0 for null).  A socket has the readyState the host gives it,
\* its connection timeout timer, and, once it is closing, the code that
\* was given to close() (1006 for a socket that never opened).  config stands for what the host makes of the
\* URL built from this.config: "untried" for the config of the constructor
\* until the first new WebSocket(wsUrl), "valid" or "malformed" from then
\* on and for every config that updateConfig hands over.
MAX_RECONNECT_ATTEMPTS == 10
IntentionalCodes == {1000, 1001}
ClientCode == 1000
AbnormalCode == 1006
NoStatusCode == 1005
StaleCode == 3000
ServerErrorCode == 1011

\* the codes the close event of a connection can carry when the peer or the
\* network ends it: a close frame of the peer (normal, going away, an
\* error of its own) or none at all
PeerCodes == IntentionalCodes \cup {AbnormalCode, ServerErrorCode}

\* The codes the close event of socket sock can carry.  A socket that
\* never opened closes with 1006.  One that was open when close(code) was
\* called gets that code back when the peer echoes it; otherwise the code
\* of the peer's own close frame, or 1006 when the connection is lost first.
CloseCodes(sock) ==
  IF sock.code = AbnormalCode THEN {AbnormalCode}
  ELSE {sock.code} \cup PeerCodes

InitialService ==
  [isConnected |-> FALSE, isConnecting |-> FALSE, reconnectAttempts |-> 0,
   reconnectTimer |-> 0, timers |-> << >>,
   heartbeatTimer |-> 0, beats |-> << >>,
   ws |-> 0, socks |-> << >>, config |-> "untried"]

NewSocket == [state |-> "connecting", timeout |-> TRUE, code |-> 0]

\* connect(): nothing while connected or connecting; constructed says
\* whether new WebSocket(wsUrl) returns a socket or throws, which the
\* catch of lines 93-96 answers by taking isConnecting back
connect(w, constructed) ==
  IF w.isConnected \/ w.isConnecting THEN w
  ELSE IF ~constructed
  THEN [w EXCEPT !.isConnecting = FALSE, !.config = "malformed"]
  ELSE [w EXCEPT !.isConnecting = TRUE, !.config = "valid",
                 !.socks = Append(@, NewSocket),
                 !.ws = Len(w.socks) + 1]

\* startHeartbeat(): a new interval; the handle of an earlier one is
\* overwritten, not cleared
startHeartbeat(w) ==
  [w EXCEPT !.beats = Append(@, TRUE), !.heartbeatTimer = Len(w.beats) + 1]

stopHeartbeat(w) ==
  IF w.heartbeatTimer = 0 THEN w
  ELSE [w EXCEPT !.beats[w.heartbeatTimer] = FALSE, !.heartbeatTimer = 0]

\* clearTimeout on a timer that has fired does nothing
clearReconnectTimer(w) ==
  IF w.reconnectTimer = 0 THEN w
  ELSE [w EXCEPT !.timers[w.reconnectTimer] = FALSE, !.reconnectTimer = 0]

\* ws.onopen of socket k
onopen(w, k) ==
  startHeartbeat([w EXCEPT !.socks[k].state = "open",
                           !.socks[k].timeout = FALSE,
                           !.isConnected = TRUE, !.isConnecting = FALSE,
                           !.reconnectAttempts = 0])

\* ws.onerror of socket k; the host sends the close event after it
onerror(w, k) ==
  [w EXCEPT !.socks[k].state = "errored", !.socks[k].timeout = FALSE,
            !.socks[k].code = AbnormalCode, !.isConnecting = FALSE]

\* scheduleReconnect(): a new timer; the handle of an earlier one is
\* overwritten, not cleared
scheduleReconnect(w) ==
  IF w.reconnectAttempts >= MAX_RECONNECT_ATTEMPTS THEN w
  ELSE [w EXCEPT !.reconnectAttempts = @ + 1,
                 !.timers = Append(@, TRUE),
                 !.reconnectTimer = Len(w.timers) + 1]

handleDisconnect(w, code) ==
  LET wasConnected == w.isConnected
      w1 == stopHeartbeat([w EXCEPT !.isConnected = FALSE,
                                    !.isConnecting = FALSE])
  IN  IF wasConnected /\ code \notin IntentionalCodes
      THEN scheduleReconnect(w1)
      ELSE w1

\* ws.onclose of socket k with the code of the close event
onclose(w, k, code) ==
  handleDisconnect([w EXCEPT !.socks[k].state = "closed",
                             !.socks[k].timeout = FALSE], code)

\* this.ws?.close(code): an open socket starts its closing handshake, a
\* connecting one is abandoned and will close abnormally
close(w, code) ==
  IF w.ws = 0 THEN w
  ELSE LET k == w.ws
       IN  IF w.socks[k].state = "open"
           THEN [w EXCEPT !.socks[k].state = "closing", !.socks[k].code = code]
           ELSE IF w.socks[k].state = "connecting"
           THEN [w EXCEPT !.socks[k].state = "closing",
                          !.socks[k].code = AbnormalCode]
           ELSE w

\* disconnect(): the timeout of a socket that was still connecting stays
\* armed
disconnect(w) ==
  [close(clearReconnectTimer(stopHeartbeat(w)), ClientCode)
     EXCEPT !.ws = 0, !.isConnected = FALSE, !.isConnecting = FALSE]

\* the connection timeout of socket k fires
timeout(w, k) ==
  [close(w, NoStatusCode) EXCEPT !.socks[k].timeout = FALSE,
                                 !.isConnecting = FALSE]

\* the heartbeat finds the connection stale
staleClose(w) == close(w, StaleCode)

\* updateConfig(config): the URL the new config gives is one the host
\* accepts or not
updateConfig(w, accepted) ==
  [w EXCEPT !.config = IF accepted THEN "valid" ELSE "malformed"]

\* what new WebSocket(wsUrl) can do in state w: return a socket (TRUE) or
\* throw (FALSE), the same at every call with the same config
Constructs(w) ==
  IF w.config = "untried" THEN BOOLEAN ELSE {w.config = "valid"}

\* reconnect timer t fires: this.connect().catch(() => {})
reconnect(w, t, constructed) ==
  connect([w EXCEPT !.timers[t] = FALSE], constructed)

\* ------------------------------------------------------------ the machine
Engine ==
  [sources |-> sources, crossfader |-> crossfader,
   nodes |-> nodes, stopped |-> stopped]

Becomes(e) ==
  /\ sources' = e.sources
  /\ crossfader' = e.crossfader
  /\ nodes' = e.nodes
  /\ stopped' = e.stopped

\* A handler is one task of the event loop.  The continuation of an await
\* on a running context is a microtask: it runs before the next task.
\* After destroy() the provider drops the engine: no handler runs any more.
Idle == ctxState # "closed" /\ (pending = << >> \/ ctxState # "running")

Init ==
  /\ sources = << >>
  /\ crossfader = 0
  /\ nodes = << >>
  /\ stopped = {}
  /\ pending = << >>
  /\ nextStream = 1
  /\ ctxState \in {"suspended", "running"}
  /\ masterVolume = Scale
  /\ monitorBus = 1
  /\ fx = InitialFx
  /\ fxState = InitialFxState
  /\ visualData = InitialVisualData
  /\ service = InitialService

\* addSource up to its await
AddSourceCall(slotId, type) ==
  /\ Idle
  /\ nextStream <= MaxAdds
  /\ pending' = Append(pending, [slot |-> slotId, stream |-> nextStream, type |-> type])
  /\ nextStream' = nextStream + 1
  /\ UNCHANGED <<sources, crossfader, nodes, stopped, ctxState>>
  /\ UNCHANGED <<masterVolume, monitorBus, fx, fxState,
                 visualData, service>>

\* the host starts the audio clock (context.resume(), user gesture)
ContextResume ==
  /\ ctxState = "suspended"
  /\ ctxState' = "running"
  /\ UNCHANGED <<sources, crossfader, nodes, stopped, pending, nextStream>>
  /\ UNCHANGED <<masterVolume, monitorBus, fx, fxState,
                 visualData, service>>

\* addSource from the await on
AddSourceResume ==
  /\ ctxState = "running"
  /\ pending # << >>
  /\ LET c == Head(pending)
     IN  Becomes(addSource(Engine, c.slot, c.stream, c.type))
  /\ pending' = Tail(pending)
  /\ UNCHANGED <<nextStream, ctxState>>
  /\ UNCHANGED <<masterVolume, monitorBus, fx, fxState,
                 visualData, service>>

\* RemoveSource that also drops the removed channel's peak level
RemoveSourceDroppingPeak(id) ==
  /\ Idle
  /\ Becomes(removeSource(Engine, id))
  /\ visualData' =
       [visualData EXCEPT
          !.peakLevels = [i \in DOMAIN visualData.peakLevels \ {id} |->
                            visualData.peakLevels[i]]]
  /\ UNCHANGED <<pending, nextStream, ctxState>>
  /\ UNCHANGED <<masterVolume, monitorBus, fx, fxState, service>>

RemoveSource(id) ==
  /\ Idle
  /\ Becomes(removeSource(Engine, id))
  /\ UNCHANGED <<pending, nextStream, ctxState>>
  /\ UNCHANGED <<masterVolume, monitorBus, fx, fxState,
                 visualData, service>>

SetSourceVolume(id, val) ==
  /\ Idle
  /\ Becomes(setSourceVolume(Engine, id, val))
  /\ UNCHANGED <<pending, nextStream, ctxState>>
  /\ UNCHANGED <<masterVolume, monitorBus, fx, fxState,
                 visualData, service>>

SetMute(id, muted) ==
  /\ Idle
  /\ Becomes(setMute(Engine, id, muted))
  /\ UNCHANGED <<pending, nextStream, ctxState>>
  /\ UNCHANGED <<masterVolume, monitorBus, fx, fxState,
                 visualData, service>>

SetSolo(id, solo) ==
  /\ Idle
  /\ Becomes(setSolo(Engine, id, solo))
  /\ UNCHANGED <<pending, nextStream, ctxState>>
  /\ UNCHANGED <<masterVolume, monitorBus, fx, fxState,
                 visualData, service>>

SetMonitoring(id, monitoring) ==
  /\ Idle
  /\ Becomes(setMonitoring(Engine, id, monitoring))
  /\ UNCHANGED <<pending, nextStream, ctxState>>
  /\ UNCHANGED <<masterVolume, monitorBus, fx, fxState,
                 visualData, service>>

SetCrossfade(id, group) ==
  /\ Idle
  /\ Becomes(setCrossfade(Engine, id, group))
  /\ UNCHANGED <<pending, nextStream, ctxState>>
  /\ UNCHANGED <<masterVolume, monitorBus, fx, fxState,
                 visualData, service>>

SetCrossfader(val) ==
  /\ Idle
  /\ Becomes(setCrossfader(Engine, val))
  /\ UNCHANGED <<pending, nextStream, ctxState>>
  /\ UNCHANGED <<masterVolume, monitorBus, fx, fxState,
                 visualData, service>>

\* destroy(): the context is closed, then every channel is removed.  A
\* continuation still waiting for resume() is rejected by the closing host.
Destroy ==
  /\ Idle
  /\ Becomes(destroy(Engine))
  /\ ctxState' = "closed"
  /\ pending' = << >>
  /\ UNCHANGED nextStream
  /\ UNCHANGED <<masterVolume, monitorBus, fx, fxState,
                 visualData, service>>

Next ==
  \/ \E id \in Slots, type \in Types : AddSourceCall(id, type)
  \/ ContextResume
  \/ AddSourceResume
  \/ \E id \in Slots : RemoveSource(id)
  \/ \E id \in Slots, val \in VolInputs : SetSourceVolume(id, val)
  \/ \E id \in Slots, b \in BOOLEAN : SetMute(id, b)
  \/ \E id \in Slots, b \in BOOLEAN : SetSolo(id, b)
  \/ \E id \in Slots, b \in BOOLEAN : SetMonitoring(id, b)
  \/ \E id \in Slots, g \in Groups : SetCrossfade(id, g)
  \/ \E val \in CrossfaderInputs : SetCrossfader(val)
  \/ Destroy

Spec == Init /\ [][Next]_vars

TypeOK ==
  /\ DOMAIN sources \subseteq Slots
  /\ crossfader \in -Scale..Scale
  /\ stopped \subseteq 1..MaxAdds
  /\ nextStream \in 1..(MaxAdds + 1)
  /\ ctxState \in {"suspended", "running", "closed"}

\* ------------------------------------------- the machine on a rejecting host
Streams == 1..MaxAdds

\* The streams a handler can issue a connect for: those of the registered
\* channels and of the addSource calls waiting at their await.  What the
\* host would do with any other stream has no effect.
Rejectable ==
  {sources[i].stream : i \in DOMAIN sources}
    \cup {pending[n].stream : n \in DOMAIN pending}

\* addSource from the await on, createMediaStreamSource throwing
AddSourceFails ==
  /\ ctxState = "running"
  /\ pending # << >>
  /\ LET c == Head(pending)
     IN  Becomes(addSourceHost(Engine, c.slot, c.stream, c.type,
                               FALSE, {}).state)
  /\ pending' = Tail(pending)
  /\ UNCHANGED <<nextStream, ctxState>>
  /\ UNCHANGED <<masterVolume, monitorBus, fx, fxState,
                 visualData, service>>

\* addSource from the await on, the host rejecting connects
AddSourceRejected(rejected) ==
  /\ ctxState = "running"
  /\ pending # << >>
  /\ LET c == Head(pending)
     IN  Becomes(addSourceHost(Engine, c.slot, c.stream, c.type,
                               TRUE, rejected).state)
  /\ pending' = Tail(pending)
  /\ UNCHANGED <<nextStream, ctxState>>
  /\ UNCHANGED <<masterVolume, monitorBus, fx, fxState,
                 visualData, service>>

SetCrossfadeRejected(id, group, rejected) ==
  /\ Idle
  /\ Becomes(setCrossfadeHost(Engine, id, group, rejected).state)
  /\ UNCHANGED <<pending, nextStream, ctxState>>
  /\ UNCHANGED <<masterVolume, monitorBus, fx, fxState,
                 visualData, service>>

\* The handlers that matter on a rejecting host: the ones that add and
\* remove channels, and the one that moves a channel to another bus (with
\* rejected empty it is setCrossfade on a host that rejects nothing).
NextFault ==
  \/ \E id \in Slots, type \in Types : AddSourceCall(id, type)
  \/ ContextResume
  \/ AddSourceResume
  \/ \E id \in Slots : RemoveSource(id)
  \/ Destroy
  \/ AddSourceFails
  \/ \E rejected \in SUBSET Rejectable : AddSourceRejected(rejected)
  \/ \E id \in Slots, g \in Groups, rejected \in SUBSET Rejectable :
       SetCrossfadeRejected(id, g, rejected)

SpecFault == Init /\ [][NextFault]_vars

\* ----------------------------------------------------- the effect controls
\* AudioProvider.updateFx: the parameters named by params are replaced and
\* the whole state is handed to the engine
UpdateFx(params) ==
  /\ Idle
  /\ fxState' = Merged(fxState, params)
  /\ fx' = updateFx(fx, fxState')
  /\ UNCHANGED <<sources, crossfader, nodes, stopped, pending, nextStream,
                 ctxState, masterVolume, monitorBus, visualData, service>>

SetMasterVolume(val) ==
  /\ Idle
  /\ masterVolume' = setMasterVolume(val)
  /\ UNCHANGED <<sources, crossfader, nodes, stopped, pending, nextStream,
                 ctxState, monitorBus, fx, fxState, visualData,
                 service>>

SetMonitorEnabled(enabled) ==
  /\ Idle
  /\ monitorBus' = setMonitorEnabled(enabled)
  /\ UNCHANGED <<sources, crossfader, nodes, stopped, pending, nextStream,
                 ctxState, masterVolume, fx, fxState, visualData,
                 service>>

NextFx ==
  \/ \E params \in FxUpdates : UpdateFx(params)
  \/ \E val \in MasterInputs : SetMasterVolume(val)

SpecFx == Init /\ [][NextFx]_vars

\* ------------------------------------------------------ the metrics loop
MaxTicks == 6

\* the samples of nothing but silence, and of a full scale level
Silent == Flat(ChannelSamples, ByteMid)
Loud == Flat(ChannelSamples, 0)

\* a tick on which the three spectrum analysers hear level v on every bin
\* of the master and of bus A, and nothing on bus B
SpectrumLevels == {0, ByteMax}
HueInputs ==
  {TickInput(Flat(MasterBins, v), Flat(GroupBins, v), Flat(GroupBins, 0),
             << >>) : v \in SpectrumLevels}

\* a tick on which the buses are silent and every channel's analyser
\* delivers silence or a full scale level
PeakInputs ==
  {TickInput(Flat(MasterBins, 0), Flat(GroupBins, 0), Flat(GroupBins, 0), w) :
     w \in [DOMAIN sources -> {Silent, Loud}]}

\* one turn of the provider's animation-frame loop
ProcessMetrics(in) ==
  /\ Idle
  /\ \E under \in BOOLEAN :
       visualData' = processMetrics(visualData, sources, ctxState, in, under)
  /\ UNCHANGED <<sources, crossfader, nodes, stopped, pending, nextStream,
                 ctxState, masterVolume, monitorBus, fx, fxState,
                 service>>

\* The loop with no channel registered and the spectra changing.
NextHue ==
  \/ ContextResume
  \/ \E in \in HueInputs : ProcessMetrics(in)

SpecHue == Init /\ [][NextHue]_vars

\* Channels come and go while the loop runs on silent buses; the ticks are
\* counted by the hue, 0.15 a tick, and capped.
NextPeaks ==
  \/ \E id \in Slots : AddSourceCall(id, "mic")
  \/ ContextResume
  \/ AddSourceResume
  \/ \E id \in Slots : RemoveSource(id)
  \/ /\ visualData.hue < MaxTicks * ((15 * HueScale) \div 100)
     /\ \E in \in PeakInputs : ProcessMetrics(in)

SpecPeaks == Init /\ [][NextPeaks]_vars

\* ------------------------------------------- controls and metrics together
WriterTicks == 2

\* a tick on which every analyser hears a full scale level
FullTick ==
  TickInput(Flat(MasterBins, ByteMax), Flat(GroupBins, ByteMax),
            Flat(GroupBins, ByteMax), [i \in DOMAIN sources |-> Loud])

\* Every control operation of the engine on one slot, next to the metrics
\* loop; the ticks are counted by the hue (2.65 a full scale tick) and capped.
NextWriter ==
  \/ AddSourceCall(1, "mic")
  \/ ContextResume
  \/ AddSourceResume
  \/ RemoveSource(1)
  \/ SetSourceVolume(1, 1)
  \/ SetMute(1, TRUE)
  \/ SetSolo(1, TRUE)
  \/ SetMonitoring(1, TRUE)
  \/ SetCrossfade(1, "A")
  \/ SetCrossfader(500)
  \/ SetMasterVolume(2500)
  \/ SetMonitorEnabled(FALSE)
  \/ UpdateFx([delayWet |-> 1500])
  \/ Destroy
  \/ /\ visualData.hue < WriterTicks * ((265 * HueScale) \div 100)
     /\ ProcessMetrics(FullTick)

SpecWriter == Init /\ [][NextWriter]_vars

\* On a host that rejects nothing the visit in insertion order leaves what
\* updateMix leaves.
HostAgrees ==
  /\ updateMixHost(Engine, {}) = Outcome(updateMix(Engine), FALSE)
  /\ \A c \in {pending[i] : i \in DOMAIN pending} :
       addSourceHost(Engine, c.slot, c.stream, c.type, TRUE, {})
         = Outcome(addSource(Engine, c.slot, c.stream, c.type), FALSE)

\* ------------------------------------------------ the connection machine
MaxSockets == 3

audio ==
  <<sources, crossfader, nodes, stopped, pending, nextStream, ctxState,
    masterVolume, monitorBus, fx, fxState, visualData>>

\* the application calls connect()
Connects ==
  /\ Len(service.socks) < MaxSockets
  /\ \E constructed \in Constructs(service) : service' = connect(service, constructed)
  /\ UNCHANGED audio

\* the application calls updateConfig()
UpdatesConfig ==
  /\ \E accepted \in BOOLEAN : service' = updateConfig(service, accepted)
  /\ UNCHANGED audio

\* the application calls disconnect()
Disconnects ==
  /\ service' = disconnect(service)
  /\ UNCHANGED audio

\* A reconnect timer fires.  Every timer is set with reconnectAttempts = 1,
\* so all have the same delay and the oldest pending one is the first.
ReconnectTimerFires ==
  /\ Len(service.socks) < MaxSockets \/ service.isConnected
       \/ service.isConnecting
  /\ \E t \in DOMAIN service.timers :
       /\ service.timers[t]
       /\ \A u \in 1..(t - 1) : ~service.timers[u]
       /\ \E constructed \in Constructs(service) :
            service' = reconnect(service, t, constructed)
  /\ UNCHANGED audio

SocketOpens(k) ==
  /\ service.socks[k].state = "connecting"
  /\ service' = onopen(service, k)
  /\ UNCHANGED audio

SocketErrors(k) ==
  /\ service.socks[k].state = "connecting"
  /\ service' = onerror(service, k)
  /\ UNCHANGED audio

ConnectionTimeout(k) ==
  /\ service.socks[k].timeout
  /\ service' = timeout(service, k)
  /\ UNCHANGED audio

\* the close event of a socket that has failed or is closing
SocketCloses(k) ==
  /\ service.socks[k].state \in {"errored", "closing"}
  /\ \E code \in CloseCodes(service.socks[k]) :
       service' = onclose(service, k, code)
  /\ UNCHANGED audio

\* the peer or the network ends an established connection
SocketDrops(k, code) ==
  /\ service.socks[k].state = "open"
  /\ service' = onclose(service, k, code)
  /\ UNCHANGED audio

\* a running heartbeat finds the connection stale and closes this.ws,
\* whatever state that socket is in
HeartbeatStale ==
  /\ \E h \in DOMAIN service.beats : service.beats[h]
  /\ service.isConnected
  /\ service' = staleClose(service)
  /\ UNCHANGED audio

\* what the host and the timers are bound to do sooner or later
Settles ==
  \/ ReconnectTimerFires
  \/ \E k \in DOMAIN service.socks :
       SocketOpens(k) \/ SocketErrors(k) \/ SocketCloses(k)

NextService ==
  \/ Connects
  \/ UpdatesConfig
  \/ Disconnects
  \/ ReconnectTimerFires
  \/ \E k \in DOMAIN service.socks : SocketOpens(k)
  \/ \E k \in DOMAIN service.socks : SocketErrors(k)
  \/ \E k \in DOMAIN service.socks : ConnectionTimeout(k)
  \/ \E k \in DOMAIN service.socks : SocketCloses(k)
  \/ \E k \in DOMAIN service.socks :
       \E code \in PeerCodes : SocketDrops(k, code)
  \/ HeartbeatStale

\* the service with its timers firing and every socket getting its events
SpecService == Init /\ [][NextService]_vars /\ WF_vars(Settles)

\* ================================================================ claims
\* Values the handlers are probed with in the state a behaviour has reached.
ProbeVolumes == {-500, 1, 500, 2500}
ProbeFaders == {-1000, -500, 0, 500, 1000}

\* the range a volume is clamped to, written out
ClampedVolume(v) == IF v < 0 THEN 0 ELSE IF v > 2000 THEN 2000 ELSE v

\* the crossfade compensation of the mix rule, in thousandths
Compensation(s, cf) ==
  CASE s.crossfadeGroup = "A" /\ cf > 0 -> 1000 - cf
    [] s.crossfadeGroup = "B" /\ cf < 0 -> 1000 + cf
    [] OTHER -> 1000

\* the gain the mix rule gives channel i of engine state e, in millionths
RuleGain(e, i) ==
  IF e.sources[i].muted THEN 0
  ELSE IF (\E j \in DOMAIN e.sources : e.sources[j].solo) /\ ~e.sources[i].solo THEN 0
  ELSE e.sources[i].volume * Compensation(e.sources[i], e.crossfader)

\* a product below 0.001 is applied as 0
Floored(g) == IF g < 1000 THEN 0 ELSE g

\* volumes and crossfader positions whose real product is 0.001 and whose
\* product in doubles is under it
FloorVolumes == {5, 10}
FloorFaders == {800, 900}

\* the gain of the mix rule as the doubles of the code give it: 0 where
\* volume times compensation, rounded, is under 0.001
RuleGainInDoubles(e, i) ==
  IF e.sources[i].muted THEN 0
  ELSE IF (\E j \in DOMAIN e.sources : e.sources[j].solo) /\ ~e.sources[i].solo THEN 0
  ELSE Floored(Times(e.sources[i].volume,
                     Compensation(e.sources[i], e.crossfader)))

\* the engine states one call of setSourceVolume, setMute or setSolo on a
\* registered channel leads to from the current state
AfterVolume(id, v) == setSourceVolume(Engine, id, v)
AfterMuteOrSolo ==
  {setMute(Engine, id, b) : id \in DOMAIN sources, b \in BOOLEAN}
    \cup {setSolo(Engine, id, b) : id \in DOMAIN sources, b \in BOOLEAN}
AfterMixCall ==
  AfterMuteOrSolo
    \cup {AfterVolume(id, v) : id \in DOMAIN sources, v \in ProbeVolumes}

\* C1 as stated: after any setSourceVolume, setMute or setSolo call the gain
\* target of every channel is exactly 0 if muted, else 0 if silenced by
\* another channel's solo, else the clamped volume times the compensation.
C1_GainIsExactProduct ==
  \A e \in AfterMixCall : \A i \in DOMAIN e.sources :
    e.sources[i].gain = RuleGain(e, i)

\* C1 amended: after any setSourceVolume, setMute or setSolo call the gain
\* target of every channel is 0 if muted (also when soloed), else 0 if another
\* channel is soloed and this one is not, else the volume clamped to [0,2]
\* times the compensation when that product is at least 0.001 and 0 when it
\* is below, the product being the one of the code's double arithmetic
\* (0.005 * (1 - 0.8) and 0.01 * (1 - 0.9) are under 0.001 there); it is a
\* function of the channel states the call leaves.
C1_MixGainRule ==
  /\ \A e \in AfterMixCall : \A i \in DOMAIN e.sources :
       e.sources[i].gain = Floored(RuleGain(e, i))
  /\ \A id \in DOMAIN sources : \A v \in FloorVolumes : \A x \in FloorFaders :
       LET e == setSourceVolume(setCrossfader(Engine, x), id, v)
       IN  /\ \A i \in DOMAIN e.sources :
                e.sources[i].gain = RuleGainInDoubles(e, i)
           /\ e.sources[id].crossfadeGroup = "A" /\ v * (1000 - x) = 1000
                => e.sources[id].gain = 0
  /\ \A id \in DOMAIN sources : \A v \in ProbeVolumes :
       AfterVolume(id, v).sources[id].volume = ClampedVolume(v)

\* a muted and soloed channel is silent next to a channel that its solo
\* silences at its initial volume
C1_Witness ==
  \E i, j \in DOMAIN sources :
    /\ i # j
    /\ sources[i].solo /\ sources[i].muted /\ sources[i].gain = 0
    /\ ~sources[j].solo /\ ~sources[j].muted
    /\ sources[j].volume = 800 /\ sources[j].gain = 0

\* C2: every registered channel's gain stage is connected to exactly one of
\* GroupA, GroupB, Master.
C2_ExactlyOneBus ==
  \A i \in DOMAIN sources :
    /\ nodes[sources[i].stream].gainTo \subseteq Buses
    /\ Cardinality(nodes[sources[i].stream].gainTo) = 1

\* two channels, one moved to GroupA and one to GroupB
C2_Witness ==
  \E i, j \in DOMAIN sources :
    /\ nodes[sources[i].stream].gainTo = {"busA"}
    /\ nodes[sources[j].stream].gainTo = {"busB"}

\* the engine state before the mix recomputation of setCrossfade(id, g)
BeforeMixOfSetCrossfade(id, g) ==
  [Engine EXCEPT !.sources[id].crossfadeGroup = g]

\* C3: a recomputation issues no graph call on a channel whose target bus is
\* the bus it is connected to, and a second recomputation in a row issues no
\* graph call at all and leaves every bus connection as the first left it.
C3_NoRedundantReconnect ==
  \A id \in DOMAIN sources : \A g \in Groups :
    LET p == BeforeMixOfSetCrossfade(id, g)
        q == updateMix(p)
        r == updateMix(q)
    IN  /\ \A i \in DOMAIN p.sources :
             p.sources[i].connectedBus = TargetBus(p.sources[i])
               => /\ MixCalls(p.sources[i]) = << >>
                  /\ q.nodes[p.sources[i].stream] = p.nodes[p.sources[i].stream]
        /\ \A i \in DOMAIN q.sources : MixCalls(q.sources[i]) = << >>
        /\ r.nodes = q.nodes
        /\ \A i \in DOMAIN q.sources :
             r.sources[i].connectedBus = q.sources[i].connectedBus

\* a channel sits on GroupA: a setCrossfade that moves it changes its edge,
\* one that names GroupA again must not
C3_Witness ==
  \E i \in DOMAIN sources :
    /\ sources[i].connectedBus = "busA"
    /\ MixCalls(BeforeMixOfSetCrossfade(i, "B").sources[i]) # << >>
    /\ MixCalls(BeforeMixOfSetCrossfade(i, "A").sources[i]) = << >>

\* unmuted and not silenced by another channel's solo
Audible(e, i) ==
  /\ ~e.sources[i].muted
  /\ (\E j \in DOMAIN e.sources : e.sources[j].solo) => e.sources[i].solo

\* the gain C4 states for channel i when the crossfader is x, in millionths
CrossfadedGain(s, x) ==
  IF s.crossfadeGroup = "A" THEN (IF x > 0 THEN s.volume * (1000 - x) ELSE s.volume * 1000)
  ELSE IF s.crossfadeGroup = "B" THEN (IF x < 0 THEN s.volume * (1000 + x) ELSE s.volume * 1000)
  ELSE s.volume * 1000

\* C4 as stated: after setCrossfader(x) an audible GroupA channel has gain
\* volume*(1-x) when x > 0 and volume otherwise, a GroupB channel
\* volume*(1+x) when x < 0 and volume otherwise, a Master channel volume.
C4_GainIsExactCompensation ==
  \A x \in ProbeFaders :
    LET e == setCrossfader(Engine, x)
    IN  \A i \in DOMAIN e.sources :
          Audible(e, i) => e.sources[i].gain = CrossfadedGain(e.sources[i], x)

\* C4 amended: the same, except that a gain below 0.001 is applied as 0; at
\* x = -1 GroupB is silent and GroupA uncompensated, at x = +1 the inverse,
\* at x = 0 nothing is compensated.
C4_CrossfadeCompensation ==
  \A x \in ProbeFaders :
    LET e == setCrossfader(Engine, x)
    IN  \A i \in DOMAIN e.sources :
          LET s == e.sources[i]
          IN  Audible(e, i) =>
                /\ s.gain = Floored(CrossfadedGain(s, x))
                /\ x = -1000 /\ s.crossfadeGroup = "B" => s.gain = 0
                /\ x = 1000 /\ s.crossfadeGroup = "A" => s.gain = 0
                /\ \/ x = 0
                   \/ x = -1000 /\ s.crossfadeGroup = "A"
                   \/ x = 1000 /\ s.crossfadeGroup = "B"
                   \/ s.crossfadeGroup = "C"
                   => s.gain = Floored(s.volume * 1000)

\* crossfader at 0.5 with a GroupA channel at half its volume and a GroupB
\* channel at its full volume
C4_Witness ==
  /\ crossfader = 500
  /\ \E i, j \in DOMAIN sources :
       /\ sources[i].crossfadeGroup = "A" /\ Audible(Engine, i)
       /\ sources[i].volume = 800 /\ sources[i].gain = 400000
       /\ sources[j].crossfadeGroup = "B" /\ Audible(Engine, j)
       /\ sources[j].gain = sources[j].volume * 1000 /\ sources[j].gain > 0

\* gain targets and bus connections of an engine state
Mix(e) ==
  [gain |-> [i \in DOMAIN e.sources |-> e.sources[i].gain],
   bus |-> [i \in DOMAIN e.sources |-> e.nodes[e.sources[i].stream].gainTo],
   edges |-> e.nodes,
   recorded |-> [i \in DOMAIN e.sources |-> e.sources[i].connectedBus]]

\* C5: setCrossfader(x); setCrossfader(-x); setCrossfader(x) leaves every
\* channel with the gain target and the bus connection of one setCrossfader(x).
C5_CrossfaderKeepsNoHistory ==
  \A x \in {-1500, -500, 500, 1000} :
    LET once == setCrossfader(Engine, x)
        thrice == setCrossfader(setCrossfader(once, -x), x)
    IN  Mix(thrice) = Mix(once)

\* the crossfader is off centre and compensates a channel, so -x and x give
\* different gains
C5_Witness ==
  /\ crossfader = 500
  /\ \E i \in DOMAIN sources :
       /\ sources[i].crossfadeGroup = "A" /\ sources[i].gain = 400000
       /\ setCrossfader(Engine, -500).sources[i].gain = 800000

\* the edges of the channel in slot i
NodesOf(i) == nodes[sources[i].stream]

\* C6: every registered channel keeps source->gain, gain->probe,
\* gain->monitorGate and monitorGate->Monitor next to its single bus edge.
C6_ChainStaysWired ==
  \A i \in DOMAIN sources :
    /\ NodesOf(i).srcToGain
    /\ NodesOf(i).gainToProbe
    /\ NodesOf(i).gainToMon
    /\ NodesOf(i).monToBus
    /\ Cardinality(NodesOf(i).gainTo) = 1

\* the node sets that have a channel in the registry of engine state e
Live(e) == {e.sources[i].stream : i \in DOMAIN e.sources}

\* C7: a node set that is not the registered occupant of a slot has no bus
\* edge and its stream is stopped, no node set occupies two slots, and an
\* addSource on an occupied slot leaves the old occupant stopped and off
\* every bus with the new channel in its place.
C7_OneOccupantPerSlot ==
  /\ \A i, j \in DOMAIN sources : sources[i].stream = sources[j].stream => i = j
  /\ \A k \in DOMAIN nodes :
       k \notin Live(Engine) => nodes[k].gainTo = {} /\ k \in stopped
  /\ pending # << >> /\ Head(pending).slot \in DOMAIN sources =>
       LET c == Head(pending)
           old == sources[c.slot].stream
           e == addSource(Engine, c.slot, c.stream, c.type)
       IN  /\ old \in e.stopped
           /\ e.nodes[old].gainTo = {}
           /\ e.sources[c.slot].stream = c.stream
           /\ Live(e) = (Live(Engine) \ {old}) \cup {c.stream}

\* an addSource is about to run on a slot whose occupant is live and on a bus
C7_Witness ==
  /\ ctxState = "running"
  /\ pending # << >>
  /\ Head(pending).slot \in DOMAIN sources
  /\ sources[Head(pending).slot].stream \notin stopped
  /\ NodesOf(Head(pending).slot).gainTo # {}
  /\ Cardinality(DOMAIN addSource(Engine, Head(pending).slot,
                                  Head(pending).stream, Head(pending).type).nodes) = 2

\* C8: the channel addSource registers has volume 0.8, is neither muted nor
\* soloed, is in the neutral group and on Master, monitors exactly when it is
\* a screen capture, has its monitor gate at 1 for screen and 0 for mic, and
\* its gain target is 0.8, or 0 when another channel is soloed.
C8_NewChannelDefaults ==
  pending # << >> =>
    LET c == Head(pending)
        e == addSource(Engine, c.slot, c.stream, c.type)
        s == e.sources[c.slot]
    IN  /\ s.volume = 800 /\ ~s.muted /\ ~s.solo
        /\ s.crossfadeGroup = "C"
        /\ s.connectedBus = "masterBus"
        /\ e.nodes[c.stream].gainTo = {"masterBus"}
        /\ s.monitoring = (c.type = "screen")
        /\ s.monitorGate = (IF c.type = "screen" THEN 1 ELSE 0)
        /\ s.gain = IF \E j \in DOMAIN e.sources : e.sources[j].solo
                    THEN 0 ELSE 800000

\* a microphone is about to be added next to a soloed channel
C8_Witness ==
  /\ ctxState = "running"
  /\ pending # << >>
  /\ Head(pending).type = "mic"
  /\ \E j \in DOMAIN sources \ {Head(pending).slot} : sources[j].solo

\* what removeSource(id) and a tick after it leave when id is not
\* registered: the registry with every channel's state, bus and gain
\* target, the crossfader, the edges of every node set and the stopped
\* streams are those of before, and the tick writes the telemetry it would
\* have written without the call
AbsentLeavesEngine(id) ==
  LET e == removeSource(Engine, id)
  IN  /\ DOMAIN e.sources = DOMAIN sources
      /\ \A i \in DOMAIN sources :
           /\ e.sources[i] = sources[i]
           /\ e.sources[i].connectedBus = sources[i].connectedBus
           /\ e.sources[i].gain = sources[i].gain
      /\ e.crossfader = crossfader
      /\ e.nodes = nodes
      /\ e.stopped = stopped
      /\ \A in \in PeakInputs :
           processMetrics(visualData, e.sources, ctxState, in, FALSE)
             = processMetrics(visualData, sources, ctxState, in, FALSE)

\* C9: removeSource of an id that is not registered changes nothing: the
\* registry, every channel's state, bus connection and gain target, the
\* crossfader and every field of the telemetry (bands, hue, raw spectrum,
\* peak levels, group bands) are the same after the call as before, and
\* so is everything else; a second removeSource(id) changes nothing the
\* first left.
C9_RemoveAbsentIsNoOp ==
  /\ [](\A id \in Slots \ DOMAIN sources : AbsentLeavesEngine(id))
  /\ [](\A id \in Slots :
          removeSource(removeSource(Engine, id), id) = removeSource(Engine, id))
  /\ [][\A id \in Slots \ DOMAIN sources :
          RemoveSource(id) =>
            /\ visualData'.bass = visualData.bass
            /\ visualData'.mid = visualData.mid
            /\ visualData'.high = visualData.high
            /\ visualData'.hue = visualData.hue
            /\ visualData'.raw = visualData.raw
            /\ visualData'.peakLevels = visualData.peakLevels
            /\ visualData'.groupA = visualData.groupA
            /\ visualData'.groupB = visualData.groupB
            /\ UNCHANGED vars]_vars

\* a channel has been removed and its slot is free while another channel is
\* registered and the telemetry holds the peak levels of both
C9_Witness ==
  /\ Slots \ DOMAIN sources # {}
  /\ DOMAIN sources # {}
  /\ stopped # {}
  /\ visualData.hue > 0
  /\ DOMAIN visualData.peakLevels = Slots

\* C10: removeSource of a registered id leaves the id out of the registry,
\* its stream stopped and no edge from its source, gain or monitor gate to a
\* bus; and a node set is on a bus exactly while its channel is registered.
C10_RemoveIsComplete ==
  /\ \A id \in DOMAIN sources :
       LET k == sources[id].stream
           e == removeSource(Engine, id)
       IN  /\ id \notin DOMAIN e.sources
           /\ k \in e.stopped
           /\ e.nodes[k].gainTo = {}
           /\ ~e.nodes[k].monToBus
           /\ ~e.nodes[k].srcToGain
  /\ \A k \in DOMAIN nodes : k \in Live(Engine) <=> nodes[k].gainTo # {}

\* one channel has been torn down and another is registered and connected
C10_Witness ==
  \E k \in DOMAIN nodes : \E i \in DOMAIN sources :
    /\ k \notin Live(Engine) /\ k \in stopped /\ ~nodes[k].monToBus
    /\ sources[i].stream \notin stopped /\ NodesOf(i).monToBus

\* ------------------------------------------------- failures of the host
\* the disconnect of the recorded bus edge of channel i would throw
Stale(i) ==
  /\ sources[i].connectedBus # None
  /\ DisconnectThrows(NodesOf(i), sources[i].connectedBus)

\* C11: when the disconnect of a channel's recorded bus edge throws during
\* its teardown, removeSource still stops the channel's tracks and takes it
\* out of the registry, and destroy still empties the registry and stops the
\* tracks of every channel: no stream of a torn down channel stays live.
C11_TeardownSurvivesThrow ==
  \A id \in DOMAIN sources :
    Stale(id) =>
      LET r == removeSource(Engine, id)
          d == destroy(Engine)
      IN  /\ id \notin DOMAIN r.sources
          /\ sources[id].stream \in r.stopped
          /\ d.sources = << >>
          /\ Live(Engine) \subseteq d.stopped

\* C12: destroy leaves the registry empty, the tracks of every registered
\* stream stopped and no gain node on a bus, whatever the number of
\* channels; and that is the state of the engine once it is closed.
C12_DestroyReleasesAll ==
  /\ LET d == destroy(Engine)
     IN  /\ d.sources = << >>
         /\ Live(Engine) \subseteq d.stopped
         /\ \A k \in DOMAIN d.nodes : d.nodes[k].gainTo = {}
  /\ ctxState = "closed" =>
       /\ sources = << >>
       /\ \A k \in DOMAIN nodes : k \in stopped /\ nodes[k].gainTo = {}

\* a closed engine that had registered two streams
C12_Witness ==
  /\ ctxState = "closed"
  /\ sources = << >>
  /\ DOMAIN nodes = {1, 2}
  /\ stopped = {1, 2}

\* C13: an addSource whose stream cannot be opened as a stream source
\* leaves the engine as it was before the call.
C13_FailedAddKeepsState ==
  pending # << >> =>
    LET c == Head(pending)
    IN  addSourceHost(Engine, c.slot, c.stream, c.type, FALSE, {}).state
          = Engine

\* the streams whose gain node a mix recomputation of e connects
Reconnects(e) ==
  {e.sources[i].stream : i \in {j \in DOMAIN e.sources :
                            e.sources[j].connectedBus # TargetBus(e.sources[j])}}

\* C14: a mix recomputation, in setCrossfade or in addSource, throws to its
\* caller exactly when the host rejects a connect it issues; a disconnect
\* of the old edge that throws is caught, and every channel the call
\* reconnects ends connected to its target bus alone, the record saying so.
C14_ConnectRaisedDisconnectCaught ==
  /\ \A id \in DOMAIN sources, g \in Groups, rejected \in SUBSET Rejectable :
       LET e0 == [Engine EXCEPT !.sources[id].crossfadeGroup = g]
           r == setCrossfadeHost(Engine, id, g, rejected)
       IN  /\ r.threw <=> (Reconnects(e0) \cap rejected # {})
           /\ ~r.threw =>
                \A j \in DOMAIN sources :
                  LET k == sources[j].stream
                  IN  k \in Reconnects(e0) =>
                        /\ r.state.nodes[k].gainTo
                             = {TargetBus(e0.sources[j])}
                        /\ r.state.sources[j].connectedBus
                             = TargetBus(e0.sources[j])
  /\ pending # << >> =>
       \A rejected \in SUBSET Rejectable :
         LET c == Head(pending)
             e1 == removeSource(Engine, c.slot)
             r == addSourceHost(Engine, c.slot, c.stream, c.type, TRUE,
                                rejected)
         IN  r.threw <=> ((Reconnects(e1) \cup {c.stream}) \cap rejected # {})

\* a connect has been rejected: the channel's record names a bus its gain
\* node is not connected to, so the next disconnect of that edge throws
C14_Witness == \E i \in DOMAIN sources : Stale(i)

\* C15: when a mix recomputation throws on the rejected connect of one
\* channel, every other channel has the gain target and the bus edge the
\* mix rules give it for the state the call leaves.
C15_OthersKeepTheirMix ==
  \A id \in DOMAIN sources, b \in BOOLEAN, k \in Streams :
    LET r == setMuteHost(Engine, id, b, {k})
        e == r.state
    IN  r.threw =>
          \A j \in DOMAIN e.sources :
            e.sources[j].stream # k =>
              /\ e.sources[j].gain
                   = RampTarget(TargetGain(e.sources[j], anySolo(e.sources),
                                           e.crossfader))
              /\ e.nodes[e.sources[j].stream].gainTo
                   = {TargetBus(e.sources[j])}

\* ------------------------------------------------------------ parameters
\* Numbers the setters are probed with: below, at, inside and above every
\* range.
ProbeNumbers ==
  {-30000000, -1001, -1000, -1, 0, 1, 950, 951, 1000, 1001, 2000, 2001,
   4000, 4001, 19999, 20000, 20001, 20000000, 20000001, 30000000}

\* the value of lo..hi nearest to v
Nearest(lo, hi, v) == IF v < lo THEN lo ELSE IF v > hi THEN hi ELSE v

\* every setter stores the value of its range nearest to its input
SettersClamp ==
  \A v \in ProbeNumbers :
    /\ setMasterVolume(v) = Nearest(0, 2000, v)
    /\ setCrossfader(Engine, v).crossfader = Nearest(-1000, 1000, v)
    /\ \A id \in DOMAIN sources :
         setSourceVolume(Engine, id, v).sources[id].volume
           = Nearest(0, 2000, v)
    /\ updateFx(fx, [fxState EXCEPT !.filterFreq = v]).frequency
         = Nearest(20000, 20000000, v)
    /\ updateFx(fx, [fxState EXCEPT !.filterRes = v]).Q
         = Nearest(0, 20000, v)
    /\ updateFx(fx, [fxState EXCEPT !.delayTime = v]).delayTime
         = Nearest(0, 4000, v)
    /\ updateFx(fx, [fxState EXCEPT !.delayFeedback = v]).feedback
         = Nearest(0, 950, v)
    /\ updateFx(fx, [fxState EXCEPT !.delayWet = v]).wet
         = Nearest(0, 1000, v)

\* every parameter the engine and the host hold is inside its range
ParametersInRange ==
  /\ masterVolume \in 0..2000
  /\ crossfader \in -1000..1000
  /\ \A id \in DOMAIN sources : sources[id].volume \in 0..2000
  /\ fx.frequency \in 20000..20000000
  /\ fx.Q \in 0..20000
  /\ fx.delayTime \in 0..4000
  /\ fx.feedback \in 0..950
  /\ fx.wet \in 0..1000

\* C16: every setter answers every number with the value of its range
\* nearest to it (volume and master volume 0..2, crossfader -1..1, filter
\* frequency 20..20000, resonance 0..20, delay time 0..4, feedback 0..0.95,
\* wet 0..1), and every parameter is inside its range in every state.
C16_SettersClampInRange == SettersClamp /\ ParametersInRange

\* C17: the distortion stage has no curve exactly when the latest
\* distortionAmount is 0, and otherwise holds the curve built from the
\* latest amount.
C17_CurveFollowsAmount ==
  fx.curve = IF fxState.distortionAmount > 0
             THEN makeDistortionCurve(fxState.distortionAmount)
             ELSE NoCurve

\* --------------------------------------------------------------- metrics
MaxLen == 32
ProbeLengths == (1..MaxLen) \cup {GroupBins, RawLen}

\* the indexes one loop of the band split reads
Read(r) == Indexes(r.from, r.to)

\* C18: for every length the three loops of the band split read disjoint,
\* contiguous index ranges that cover 0..len-1 exactly, of
\* floor(0.06 * len), floor(0.35 * len) and the remaining number of bins;
\* and the three sums the master split reports add up to the sum of the
\* whole spectrum.
C18_BandSplitCovers ==
  /\ \A len \in ProbeLengths :
       LET at == BandBounds(len)
           B == Read(at.bass)
           M == Read(at.mid)
           H == Read(at.high)
           nb == (6 * len) \div 100
           nm == (35 * len) \div 100
       IN  /\ B = 0..(nb - 1)
           /\ M = nb..(nb + nm - 1)
           /\ H = (nb + nm)..(len - 1)
           /\ B \cup M \cup H = 0..(len - 1)
           /\ B \cap M = {} /\ B \cap H = {} /\ M \cap H = {}
           /\ Cardinality(B) + Cardinality(M) + Cardinality(H) = len
  /\ visualData.bass.num + visualData.mid.num + visualData.high.num
       = SumBins(visualData.raw, 0, RawLen)

\* a tick has summed a spectrum with energy in all three bands
C18_Witness ==
  /\ visualData.bass.num > 0
  /\ visualData.mid.num > 0
  /\ visualData.high.num > 0

\* n hundredths of a degree, in the units of hue
Hundredths(n) == n * (HueScale \div 100)

\* 2.5 * bass degrees, in the units of hue
BassTurn(bass) == (25 * bass.num * (HueScale \div bass.den)) \div 10

\* the way from hue h to hue g going up, through the wrap at 360
Advance(h, g) == (g - h + Hundredths(36000)) % Hundredths(36000)

\* C19: hue is in [0, 360) in every state (Under360 standing for the
\* doubles just under 360); a tick on a running clock makes it
\* (hue + 0.15 + 2.5 * bass) mod 360 with bass the master bass of that
\* same tick, which is an advance of at least 0.15 and at most 2.65
\* through the wrap; and the telemetry changes on no other occasion.
C19_HueAdvances ==
  /\ [](visualData.hue >= 0 /\ visualData.hue <= Under360)
  /\ [][visualData' # visualData =>
          /\ ctxState = "running"
          /\ (visualData'.hue - visualData.hue - Hundredths(15)
                - BassTurn(visualData'.bass)) % Hundredths(36000) = 0
          /\ Advance(visualData.hue, visualData'.hue) >= Hundredths(15)
          /\ Advance(visualData.hue, visualData'.hue) <= Hundredths(265)
     ]_vars

\* a tick with bass 1 has taken the hue through the wrap: it advanced by
\* 2.65 and stands below 2.65
C19_Witness ==
  /\ visualData.bass.num = visualData.bass.den
  /\ visualData.hue < Hundredths(265)

PeakSame(p, q) == PeakGeq(p, q) /\ PeakGeq(q, p)

\* 0.90 * p
Decayed(p) == Peak(p.t, p.k + 1)

\* the level a tick reports for every registered channel is the larger of
\* the raw peak computed from the buffer and 0.90 times the level before
PeakFollowsMax ==
  ctxState = "running" =>
    \A in \in PeakInputs :
      LET after == processMetrics(visualData, sources, ctxState, in, FALSE)
      IN  \A id \in DOMAIN sources :
            LET held == Decayed(PeakOf(visualData.peakLevels, id))
                raw == RawPeak(RmsBuffer(in.wave[id]))
                now == after.peakLevels[id]
            IN  /\ PeakGeq(now, raw)
                /\ PeakGeq(now, held)
                /\ PeakSame(now, raw) \/ PeakSame(now, held)

\* on a tick on which a channel's analyser delivers silence, whose raw
\* peak is 0, the level reported is 0.90 times the level before
SilenceDecays ==
  ctxState = "running" =>
    \A in \in PeakInputs :
      LET after == processMetrics(visualData, sources, ctxState, in, FALSE)
      IN  \A id \in DOMAIN sources :
            in.wave[id] = Silent =>
              PeakSame(after.peakLevels[id],
                       Decayed(PeakOf(visualData.peakLevels, id)))

\* C20: every tick reports for every registered channel the larger of the
\* tick's raw peak and 0.90 times the level before; a tick of silence has
\* raw peak 0 and so reports 0.90 times the level before, which over N
\* such ticks is the first level times 0.90^N.
C20_PeakHoldsAndDecays == PeakFollowsMax /\ SilenceDecays

\* ------------------------------------------------------------- telemetry
\* everything the control operations write
Controls ==
  <<sources, crossfader, nodes, stopped, pending, nextStream, ctxState,
    masterVolume, monitorBus, fx, fxState>>

\* C21: a step that changes a field of the telemetry changes no channel
\* state, no bus connection, no gain target and no other control state, and
\* is taken on a running clock; a step that changes anything the control
\* operations write leaves every field of the telemetry as it was.
C21_TelemetrySingleWriter ==
  [][/\ visualData' # visualData =>
          ctxState = "running" /\ Controls' = Controls
     /\ Controls' # Controls => visualData' = visualData
    ]_vars

\* the loop has reported the peak of a channel that the controls have since
\* muted, with the master volume, the monitor bus and the delay changed
C21_Witness ==
  /\ 1 \in DOMAIN visualData.peakLevels
  /\ visualData.bass # Zero
  /\ 1 \in DOMAIN sources /\ sources[1].muted
  /\ masterVolume = MaxVolume /\ monitorBus = 0 /\ fx.wet = DelayWetMax

\* --------------------------------------------------------------- routing
\* every registered channel of e is connected to the bus of its group and
\* to no other
Routed(e) ==
  \A i \in DOMAIN e.sources :
    e.nodes[e.sources[i].stream].gainTo = {TargetBus(e.sources[i])}

\* on a host that rejects nothing every handler leaves the channels routed
RoutedWhenAccepted == Routed(Engine)

\* C22: after every control operation that completes without error each
\* registered channel is connected to GroupA if its group is A, to GroupB
\* if it is B and to Master otherwise, and to no other bus; so after a
\* setCrossfade(id, g) that returns, channel id is on the bus of g alone.
C22_RoutedByGroup ==
  /\ \A id \in DOMAIN sources, g \in Groups, rejected \in SUBSET Rejectable :
       LET r == setCrossfadeHost(Engine, id, g, rejected)
       IN  ~r.threw => Routed(r.state)
  /\ \A id \in Slots : Routed(removeSource(Engine, id))

\* C23: after removeSource(id) every remaining channel's gain target is
\* what the mix rule gives over the remaining registry (0 if muted, else 0
\* if a remaining channel is soloed and this one is not, else the volume
\* times the compensation, below 0.001 applied as 0); so removing the only
\* soloed channel brings the remaining unmuted channels back up.
C23_RemoveRecomputesMix ==
  \A id \in DOMAIN sources :
    LET e == removeSource(Engine, id)
    IN  \A j \in DOMAIN e.sources :
          e.sources[j].gain = Floored(RuleGain(e, j))

\* C24: in every state, also after a connect or a disconnect has failed,
\* the bus recorded for a channel is the one bus its gain node is connected
\* to, and the record is unset exactly while the gain node is on no bus.
C24_RecordMatchesEdge ==
  \A i \in DOMAIN sources :
    NodesOf(i).gainTo =
      IF sources[i].connectedBus = None THEN {}
      ELSE {sources[i].connectedBus}

\* ---------------------------------------------------------- band energies
\* a = b as fractions
RatioEq(a, b) ==
  LET g == GCD(a.den, b.den)
  IN  a.num * (b.den \div g) = b.num * (a.den \div g)

BandsEq(x, y) ==
  RatioEq(x.bass, y.bass) /\ RatioEq(x.mid, y.mid) /\ RatioEq(x.high, y.high)

\* 0 <= r <= 1
InUnit(r) == r.num >= 0 /\ r.den > 0 /\ r.num <= r.den

\* spectra of every probed length: flat ones and a ramp through the bytes
ProbeSpectra ==
  {Flat(len, v) : len \in ProbeLengths \cup {0}, v \in {0, 1, ByteMax}}
    \cup {[i \in 1..len |-> (37 * i) % (ByteMax + 1)] : len \in ProbeLengths}

\* on one and the same array the inline split of processMetrics and
\* updateBandEnergy give the same three values, each in [0,1], and 0 for a
\* band without bins
BandCopiesAgree ==
  \A data \in ProbeSpectra :
    LET x == MasterBands(data)
        y == updateBandEnergy(data)
        at == BandBounds(Len(data))
    IN  /\ BandsEq(x, y)
        /\ InUnit(y.bass) /\ InUnit(y.mid) /\ InUnit(y.high)
        /\ at.bass.to = at.bass.from => y.bass.num = 0
        /\ at.mid.to = at.mid.from => y.mid.num = 0
        /\ at.high.to = at.high.from => y.high.num = 0

\* the bands a tick reports for Master are those updateBandEnergy gives
\* for the spectrum the master probe delivered on that tick
MasterAsGroups ==
  ctxState = "running" =>
    \A in \in HueInputs :
      LET after == processMetrics(visualData, sources, ctxState, in, FALSE)
      IN  /\ BandsEq(after, updateBandEnergy(in.master))
          /\ BandsEq(after.groupA, updateBandEnergy(in.a))
          /\ BandsEq(after.groupB, updateBandEnergy(in.b))

\* C25: the band energies of Master and of GroupA and GroupB are the same
\* function of the spectrum their probe delivers: the same three values for
\* the same spectrum, each in [0,1], and 0 for a band without bins.
C25_BandsSameFunction == BandCopiesAgree /\ MasterAsGroups

\* ----------------------------------------------------------- monitor gate
\* the monitor-gate target of every channel of e is 1 if the channel is
\* monitored and 0 if not
GateFollowsFlag(e) ==
  \A i \in DOMAIN e.sources :
    e.sources[i].monitorGate = IF e.sources[i].monitoring THEN 1 ELSE 0

\* setMonitoring leaves every main gain target and every edge as it was
SetMonitoringKeepsMix ==
  \A id \in DOMAIN sources, b \in BOOLEAN :
    LET e == setMonitoring(Engine, id, b)
    IN  /\ \A j \in DOMAIN sources : e.sources[j].gain = sources[j].gain
        /\ e.nodes = nodes

\* the gain targets are those of a recomputation over the present registry
MixIsCurrent ==
  \A j \in DOMAIN sources : sources[j].gain = Floored(RuleGain(Engine, j))

\* where no removal has left the gain targets behind, setMonitoring keeps them
SetMonitoringKeepsCurrentMix == MixIsCurrent => SetMonitoringKeepsMix

\* C26: after every mix recomputation each channel's monitor-gate target is
\* 1.0 if its monitoring flag is set and 0.0 if not, whatever its volume,
\* mute, solo and group and whatever the crossfader; and setMonitoring
\* changes no channel's main gain target and no bus connection.
C26_MonitorGateByFlag ==
  /\ GateFollowsFlag(Engine)
  /\ \A id \in DOMAIN sources, b \in BOOLEAN :
       GateFollowsFlag(setMonitoring(Engine, id, b))
  /\ SetMonitoringKeepsMix

\* ------------------------------------------------------ overlapping adds
\* two addSource calls for one slot wait at their await, one behind the other
Overlap ==
  /\ Len(pending) >= 2
  /\ pending[1].slot = pending[2].slot

\* C27: when two addSource calls for the same slot are both suspended at
\* the resume of the audio clock, then once both have completed the
\* registry holds one channel for the slot, that of the later call; it is
\* connected to exactly one bus; and the stream of the earlier call, whose
\* channel was replaced, is stopped and on no bus.
C27_OverlappingAddsLeaveOne ==
  Overlap =>
    LET c1 == pending[1]
        c2 == pending[2]
        e1 == addSource(Engine, c1.slot, c1.stream, c1.type)
        e2 == addSource(e1, c2.slot, c2.stream, c2.type)
    IN  /\ DOMAIN e2.sources = DOMAIN sources \cup {c1.slot}
        /\ e2.sources[c1.slot].stream = c2.stream
        /\ \A i, j \in DOMAIN e2.sources :
             e2.sources[i].stream = e2.sources[j].stream => i = j
        /\ Cardinality(e2.nodes[c2.stream].gainTo) = 1
        /\ e2.nodes[c2.stream].gainTo \subseteq Buses
        /\ c1.stream \in e2.stopped
        /\ e2.nodes[c1.stream].gainTo = {}
        /\ c2.stream \notin e2.stopped

\* both calls for one slot are suspended and the clock has just started:
\* their continuations run next, in the order of the calls
C27_Witness ==
  /\ Overlap
  /\ ctxState = "running"
  /\ pending[1].slot \notin DOMAIN sources

Lost == service.reconnectAttempts > 0 /\ ~service.isConnected

\* the service is down and the reconnect attempt it has scheduled is due
Scheduled ==
  /\ Lost
  /\ service.reconnectTimer # 0
  /\ service.timers[service.reconnectTimer]

\* the host has no socket left to give to a further attempt
Exhausted == Len(service.socks) = MaxSockets

\* the count of attempts never passes one: only onopen makes isConnected
\* true, and it sets the count to 0
AttemptsAtMostOne == service.reconnectAttempts <= 1

\* the application has called disconnect() and not connect() since
GivenUp == service.ws = 0

\* C29: once an established connection has closed with a code other than
\* 1000 and 1001 the service goes on attempting to reconnect, every failed
\* attempt followed by another, until a connection opens or
\* reconnectAttempts has reached 10 (or the application disconnects or
\* hands over a config whose URL the host does not accept, or, here, the
\* sockets of the model are used up); and reconnectAttempts never exceeds
\* 10.
C29_ReconnectsUntilOpenOrMax ==
  /\ [](service.reconnectAttempts <= MAX_RECONNECT_ATTEMPTS)
  /\ Scheduled ~> \/ service.isConnected
                  \/ service.reconnectAttempts = MAX_RECONNECT_ATTEMPTS
                  \/ GivenUp
                  \/ service.config = "malformed"
                  \/ Exhausted
====
